---- MODULE Spec2Model ----
(***************************************************************************)
(* Model of utils/transcribe.py: the local transcription pipeline          *)
(*   transcribe_audio = _convert_to_wav ; _get_audio_duration ;            *)
(*                      _chunk_audio ; WhisperModel ; recognition loop.    *)
(* Time is counted in whole seconds.  A temporary file is a number: 0 is   *)
(* wav_path, i >= 1 is the file made by loop iteration chunk_idx = i - 1   *)
(* of _chunk_audio.  Text is a sequence of one-character strings.          *)
(***************************************************************************)
EXTENDS Integers, Sequences, FiniteSets, TLC

\* ------------------------------------------------------------- bounds
MaxFrames == 6      \* frames in the canonical stream
MaxPieces == 3      \* text pieces the recognizer yields over one call of the pipeline

FrameDurs == {400, 900}                \* seconds of audio per decoded frame
NoPtsDurs == {400}                     \* the same, in streams with a frame without pts
Languages == {"en", "es"}              \* info.language values
RawTexts  == { <<" ">>, <<" ", "b", " ">>, <<"c", " ", "d">> }

\* ------------------------------------------------------------- constants
chunk_duration == 1200
wav_path == 0

VARIABLES
  pc,               \* position in transcribe_audio
  input,            \* the input file: [kind, nFrames, frameDur, metaKnown, noPts]
  files,            \* temporary files now on disk
  created,          \* temporary files ever created (history)
  duration,         \* transcribe_audio: duration (line 143)
  total_duration,   \* _chunk_audio: total_duration (line 85)
  num_chunks,       \* _chunk_audio: num_chunks
  chunk_idx,        \* _chunk_audio: chunk_idx of the next loop iteration
  chunk_list,       \* _chunk_audio: its local list chunks
  ranges,           \* (start_time, end_time) computed by each iteration (history)
  pos,              \* read position of the container opened at line 78
  content,          \* frames written to each chunk file
  first_read,       \* read position at the start of each iteration (history)
  chunk_failed,     \* _chunk_audio took its except branch (history)
  chunks,           \* transcribe_audio: chunks
  idx,              \* recognition loop: position in chunks of the next segment
  transcript_lines, \* transcribe_audio: transcript_lines
  detected_lang,    \* transcribe_audio: detected_lang
  recLog,           \* recognition calls made so far (history)
  result            \* what the call returned, or the error it raised

vars == << pc, input, files, created, duration, total_duration, num_chunks,
           chunk_idx, chunk_list, ranges, pos, content, first_read, chunk_failed,
           chunks, idx, transcript_lines, detected_lang, recLog, result >>

chunkVars == << total_duration, num_chunks, chunk_idx, chunk_list, ranges,
                pos, content, first_read, chunk_failed >>
loopVars  == << idx, transcript_lines, detected_lang, recLog >>

NoResult == [kind |-> "none", text |-> <<>>, lang |-> "unknown", error |-> "none"]

Raised(cause) == [kind |-> "raised", text |-> <<>>, lang |-> "unknown", error |-> cause]

\* ------------------------------------------------------------- text
RECURSIVE LStrip(_)
LStrip(s) == IF s # <<>> /\ Head(s) = " " THEN LStrip(Tail(s)) ELSE s

RECURSIVE RStrip(_)
RStrip(s) ==
  IF s # <<>> /\ s[Len(s)] = " " THEN RStrip(SubSeq(s, 1, Len(s) - 1)) ELSE s

\* str.strip()
Strip(s) == RStrip(LStrip(s))

\* [t for t in transcript_lines if t]
KeepAll(lines) == lines
NonEmpty(lines) == SelectSeq(lines, LAMBDA t : t # <<>>)

\* " ".join(...)
RECURSIVE Join(_)
Join(lines) ==
  IF lines = <<>> THEN <<>>
  ELSE IF Len(lines) = 1 THEN lines[1]
  ELSE lines[1] \o <<" ">> \o Join(Tail(lines))

\* line 185
Transcript(lines) == Strip(Join(NonEmpty(lines)))

\* ------------------------------------------------------------- frames
Frames == 1 .. input.nFrames
\* frame.pts * time_base of the f-th frame of the canonical stream
FrameTime(f) == (f - 1) * input.frameDur
StreamDuration == input.nFrames * input.frameDur

\* _get_audio_duration: the stream's duration, 0 without metadata or on error
GetAudioDuration(probeOk) ==
  IF probeOk /\ input.metaKnown /\ StreamDuration # 0 THEN StreamDuration ELSE 0

\* line 146
NeedsChunkingGE(d) == d >= chunk_duration
NeedsChunking(d) == d > chunk_duration

\* line 89: int((total_duration / chunk_duration_seconds) + 1)
NumChunks(total) == (total \div chunk_duration) + 1

Min(a, b) == IF a <= b THEN a ELSE b

\* line 95
StartTime(i) == i * chunk_duration
\* line 96
EndTimeUnclipped(i, total) == (i + 1) * chunk_duration
EndTime(i, total) == Min((i + 1) * chunk_duration, total)

\* lines 103-117: one for-loop over container.decode(audio_stream), which goes
\* on from the container's read position p; the frame that breaks the loop has
\* been read.
RECURSIVE DecodeLoop(_, _, _, _)
DecodeLoop(p, start, end, acc) ==
  IF p > input.nFrames THEN [pos |-> p, out |-> acc]
  ELSE IF p \in input.noPts THEN DecodeLoop(p + 1, start, end, acc)
  ELSE IF FrameTime(p) >= end THEN [pos |-> p + 1, out |-> acc]
  ELSE IF FrameTime(p) < start THEN DecodeLoop(p + 1, start, end, acc)
  ELSE DecodeLoop(p + 1, start, end, Append(acc, p))

\* ------------------------------------------------------------- initial state
Inputs ==
  { [kind |-> "unreadable", nFrames |-> 0, frameDur |-> 400,
     metaKnown |-> FALSE, noPts |-> {}],
    [kind |-> "noaudio", nFrames |-> 0, frameDur |-> 400,
     metaKnown |-> FALSE, noPts |-> {}] }
  \cup
  { [kind |-> "audio", nFrames |-> n, frameDur |-> d, metaKnown |-> m, noPts |-> {}] :
      n \in 0 .. MaxFrames, d \in FrameDurs, m \in BOOLEAN }
  \cup
  { r \in { [kind |-> "audio", nFrames |-> n, frameDur |-> d, metaKnown |-> TRUE,
               noPts |-> {f}] :
                 n \in 1 .. MaxFrames, d \in NoPtsDurs, f \in 1 .. MaxFrames } :
      r.noPts \subseteq 1 .. r.nFrames }

Init ==
  /\ pc = "convert"
  /\ input \in Inputs
  /\ files = {}
  /\ created = {}
  /\ duration = 0
  /\ total_duration = 0
  /\ num_chunks = 0
  /\ chunk_idx = 0
  /\ chunk_list = <<>>
  /\ ranges = <<>>
  /\ pos = 1
  /\ content = <<>>
  /\ first_read = <<>>
  /\ chunk_failed = FALSE
  /\ chunks = <<>>
  /\ idx = 1
  /\ transcript_lines = <<>>
  /\ detected_lang = "unknown"
  /\ recLog = <<>>
  /\ result = NoResult

\* ------------------------------------------------------------- _convert_to_wav
\* lines 59-65: the except branch removes out_path
ConvertCleanupKeep(fs) == fs
ConvertCleanup(fs) == fs \ {wav_path}

\* lines 24-57, the paths that raise: av.open fails, no audio stream, an error
\* while decoding or encoding, or frame_count == 0
ConvertFails ==
  /\ pc = "convert"
  /\ \E cause \in {"UnreadableContainer", "NoAudioStream", "DecodeError",
                   "NoFramesProcessed"} :
       /\ cause = "UnreadableContainer" => input.kind = "unreadable"
       /\ cause = "NoAudioStream" => input.kind = "noaudio"
       /\ cause = "DecodeError" => input.kind = "audio" /\ input.nFrames > 0
       /\ cause = "NoFramesProcessed" => input.kind = "audio" /\ input.nFrames = 0
       /\ result' = Raised(cause)
  /\ created' = created \cup {wav_path}
  /\ files' = ConvertCleanup(files \cup {wav_path})
  /\ pc' = "raised"
  /\ UNCHANGED << input, duration, chunks >>
  /\ UNCHANGED chunkVars
  /\ UNCHANGED loopVars

\* lines 24-57 and 67, then lines 143-150 of transcribe_audio with
\* duration <= chunk_duration
ConvertAndPlanSingle ==
  /\ pc = "convert"
  /\ input.kind = "audio" /\ input.nFrames > 0
  /\ \E probeOk \in BOOLEAN :
       /\ ~NeedsChunking(GetAudioDuration(probeOk))
       /\ duration' = GetAudioDuration(probeOk)
  /\ created' = created \cup {wav_path}
  /\ files' = files \cup {wav_path}
  /\ chunks' = <<wav_path>>
  /\ pc' = "load"
  /\ UNCHANGED << input, result >>
  /\ UNCHANGED chunkVars
  /\ UNCHANGED loopVars

\* lines 24-57 and 67, then lines 143-148 of transcribe_audio with
\* duration > chunk_duration: _chunk_audio is entered
ConvertAndEnterChunking ==
  /\ pc = "convert"
  /\ input.kind = "audio" /\ input.nFrames > 0
  /\ NeedsChunking(GetAudioDuration(TRUE))
  /\ duration' = GetAudioDuration(TRUE)
  /\ created' = created \cup {wav_path}
  /\ files' = files \cup {wav_path}
  /\ pc' = "chunk_open"
  /\ UNCHANGED << input, chunks, result >>
  /\ UNCHANGED chunkVars
  /\ UNCHANGED loopVars

\* ------------------------------------------------------------- _chunk_audio
\* lines 82, 87, 128: the list returned instead of the chunks
FallbackPartial(made) == made
Fallback(made) == <<wav_path>>

\* lines 76-89, the probe at line 85 giving a duration > chunk_duration
ChunkOpen ==
  /\ pc = "chunk_open"
  /\ NeedsChunking(GetAudioDuration(TRUE))
  /\ total_duration' = GetAudioDuration(TRUE)
  /\ num_chunks' = NumChunks(GetAudioDuration(TRUE))
  /\ chunk_idx' = 0
  /\ chunk_list' = <<>>
  /\ pos' = 1
  /\ pc' = "chunk_loop"
  /\ UNCHANGED << input, files, created, duration, ranges, content,
                  first_read, chunk_failed, chunks, result >>
  /\ UNCHANGED loopVars

\* lines 85-87: the probe inside _chunk_audio fails (returns 0), so that
\* total_duration <= chunk_duration_seconds and [wav_path] is returned
ChunkOpenSingle ==
  /\ pc = "chunk_open"
  /\ ~NeedsChunking(GetAudioDuration(FALSE))
  /\ total_duration' = GetAudioDuration(FALSE)
  /\ chunks' = Fallback(chunk_list)
  /\ pc' = "load"
  /\ UNCHANGED << input, files, created, duration, num_chunks, chunk_idx,
                  chunk_list, ranges, pos, content, first_read, chunk_failed,
                  result >>
  /\ UNCHANGED loopVars

\* lines 91-123: one iteration of the loop over range(num_chunks)
ChunkStep ==
  /\ pc = "chunk_loop"
  /\ chunk_idx < num_chunks
  /\ LET file == chunk_idx + 1
         start_time == StartTime(chunk_idx)
         end_time == EndTime(chunk_idx, total_duration)
         d == DecodeLoop(pos, start_time, end_time, <<>>)
     IN /\ files' = files \cup {file}
        /\ created' = created \cup {file}
        /\ ranges' = Append(ranges, <<start_time, end_time>>)
        /\ pos' = d.pos
        /\ content' = Append(content, d.out)
        /\ first_read' = Append(first_read, pos)
        /\ chunk_list' = Append(chunk_list, file)
  /\ chunk_idx' = chunk_idx + 1
  /\ UNCHANGED << pc, input, duration, total_duration, num_chunks,
                  chunk_failed, chunks, result >>
  /\ UNCHANGED loopVars

\* line 125: the loop is over, the chunks are returned
ChunkReturn ==
  /\ pc = "chunk_loop"
  /\ chunk_idx = num_chunks
  /\ chunks' = chunk_list
  /\ pc' = "load"
  /\ UNCHANGED << input, files, created, duration, result >>
  /\ UNCHANGED chunkVars
  /\ UNCHANGED loopVars

\* lines 126-128: an exception anywhere in the try block (av.open or no audio
\* stream at lines 78-82 included); fileMade tells whether mkstemp of the
\* current iteration had already made its file
ChunkFail ==
  /\ pc \in {"chunk_open", "chunk_loop"}
  /\ \E fileMade \in BOOLEAN :
       /\ fileMade => pc = "chunk_loop" /\ chunk_idx < num_chunks
       /\ files' = IF fileMade THEN files \cup {chunk_idx + 1} ELSE files
       /\ created' = IF fileMade THEN created \cup {chunk_idx + 1} ELSE created
  /\ chunk_failed' = TRUE
  /\ chunks' = Fallback(chunk_list)
  /\ pc' = "load"
  /\ UNCHANGED << input, duration, total_duration, num_chunks, chunk_idx,
                  chunk_list, ranges, pos, content, first_read, result >>
  /\ UNCHANGED loopVars

\* ------------------------------------------------------------- transcribe_audio
\* line 153
LoadModel ==
  /\ pc = "load"
  /\ pc' = "loop"
  /\ UNCHANGED << input, files, created, duration, chunks, result >>
  /\ UNCHANGED chunkVars
  /\ UNCHANGED loopVars

\* line 153 raises: nothing is cleaned up, the try block has not been entered
LoadModelFails ==
  /\ pc = "load"
  /\ pc' = "raised"
  /\ result' = Raised("ModelError")
  /\ UNCHANGED << input, files, created, duration, chunks >>
  /\ UNCHANGED chunkVars
  /\ UNCHANGED loopVars

\* the pieces a recognition call can yield
PieceLists(n) ==
  UNION { [1 .. k -> RawTexts] : k \in 0 .. n }

\* line 168
AppendLines(lines, pieces) == lines \o [i \in 1 .. Len(pieces) |-> Strip(pieces[i])]

\* lines 172-177
RemoveChunkUnguarded(fs, chunk_path) == fs \ {chunk_path}
RemoveChunk(fs, chunk_path) == IF chunk_path # wav_path THEN fs \ {chunk_path} ELSE fs

\* lines 159-177: one iteration of the loop over chunks, the recognition succeeding
Recognize ==
  /\ pc = "loop"
  /\ idx <= Len(chunks)
  /\ \E pieces \in PieceLists(MaxPieces - Len(transcript_lines)), lang \in Languages :
       /\ transcript_lines' = AppendLines(transcript_lines, pieces)
       /\ detected_lang' = lang
       /\ recLog' = Append(recLog, [seg |-> chunks[idx], ok |-> TRUE,
                                    pieces |-> pieces])
  /\ files' = RemoveChunk(files, chunks[idx])
  /\ idx' = idx + 1
  /\ UNCHANGED << pc, input, created, duration, chunks, result >>
  /\ UNCHANGED chunkVars

\* lines 160-168 raise (model.transcribe, or the lazy iteration over segments):
\* the finally block at lines 178-183 removes wav_path and the error leaves
\* transcribe_audio
RecognizeFails ==
  /\ pc = "loop"
  /\ idx <= Len(chunks)
  /\ recLog' = Append(recLog, [seg |-> chunks[idx], ok |-> FALSE,
                               pieces |-> <<>>])
  /\ files' = files \ {wav_path}
  /\ pc' = "raised"
  /\ result' = Raised("RecognitionError")
  /\ UNCHANGED << input, created, duration, chunks, idx, transcript_lines,
                  detected_lang >>
  /\ UNCHANGED chunkVars

\* lines 178-193: the loop is over
Finish ==
  /\ pc = "loop"
  /\ idx > Len(chunks)
  /\ files' = files \ {wav_path}
  /\ result' = [kind |-> "returned", text |-> Transcript(transcript_lines),
                lang |-> detected_lang, error |-> "none"]
  /\ pc' = "returned"
  /\ UNCHANGED << input, created, duration, chunks >>
  /\ UNCHANGED chunkVars
  /\ UNCHANGED loopVars

Next ==
  \/ ConvertFails
  \/ ConvertAndPlanSingle
  \/ ConvertAndEnterChunking
  \/ ChunkOpen
  \/ ChunkOpenSingle
  \/ ChunkStep
  \/ ChunkReturn
  \/ ChunkFail
  \/ LoadModel
  \/ LoadModelFails
  \/ Recognize
  \/ RecognizeFails
  \/ Finish

Spec == Init /\ [][Next]_vars

\* ------------------------------------------------------------- properties
Terminal == pc \in {"returned", "raised"}
ConvertErrors == {"UnreadableContainer", "NoAudioStream", "DecodeError",
                  "NoFramesProcessed"}
\* _convert_to_wav returned and the duration was probed (line 143)
Probed == pc # "convert" /\ result.error \notin ConvertErrors
\* the loop of _chunk_audio ran all its iterations
LoopDone == pc = "chunk_loop" /\ chunk_idx = num_chunks

Failed == { i \in DOMAIN recLog : ~recLog[i].ok }
Succeeded == { i \in DOMAIN recLog : recLog[i].ok }

\* The text the specification asks for, written without the model's Strip,
\* NonEmpty and Join: a piece without its leading and trailing blanks is the one
\* sub-sequence that has no blank at either end and only blanks around it.
AllBlank(s) == \A i \in DOMAIN s : s[i] = " "
Trimmed(raw) ==
  CHOOSE t \in { SubSeq(raw, a, b) : a \in 1 .. Len(raw) + 1, b \in 0 .. Len(raw) } :
    \E a \in 1 .. Len(raw) + 1, b \in 0 .. Len(raw) :
      /\ t = SubSeq(raw, a, b)
      /\ AllBlank(SubSeq(raw, 1, a - 1))
      /\ AllBlank(SubSeq(raw, b + 1, Len(raw)))
      /\ t # <<>> => t[1] # " " /\ t[Len(t)] # " "

RECURSIVE Merged(_)
Merged(pieces) ==
  IF pieces = <<>> THEN <<>>
  ELSE LET t == Trimmed(Head(pieces))
           rest == Merged(Tail(pieces))
       IN IF t = <<>> THEN rest
          ELSE IF rest = <<>> THEN t
          ELSE t \o <<" ">> \o rest

\* the raw pieces of the successful calls among the first n, in call order
RECURSIVE PiecesOf(_)
PiecesOf(n) ==
  IF n = 0 THEN <<>>
  ELSE PiecesOf(n - 1) \o (IF recLog[n].ok THEN recLog[n].pieces ELSE <<>>)

Ceil(a, b) == (a + b - 1) \div b

\* C1: with two or more segments, some recognition calls failing and at least
\* one succeeding, the failed segments are skipped: the call returns, every
\* segment has been tried, and the transcript is the text of the successful
\* segments in segment order.
C1_FailedSegmentsSkipped ==
  (Terminal /\ Len(chunks) >= 2 /\ Failed # {} /\ Succeeded # {}) =>
     /\ result.kind = "returned"
     /\ Len(recLog) = Len(chunks)
     /\ result.text = Merged(PiecesOf(Len(recLog)))

\* C2: when transcribe_audio has returned or raised, no temporary file is left.
C2_NoTempFileRemains == Terminal => files = {}

\* C3: the ranges computed by _chunk_audio for a duration longer than the
\* maximum start at 0, each starts where the one before ends, their starts
\* increase strictly, none overlaps another, and once the loop is over the last
\* ends at total_duration and every second of [0, total_duration) lies in
\* exactly one range.
C3_RangesPartition ==
  /\ \A i \in DOMAIN ranges :
       /\ ranges[i][1] = (IF i = 1 THEN 0 ELSE ranges[i - 1][2])
       /\ ranges[i][1] <= ranges[i][2]
       /\ i > 1 => ranges[i - 1][1] < ranges[i][1]
       /\ ranges[i][2] <= total_duration
  /\ LoopDone =>
       /\ Len(ranges) = num_chunks
       /\ ranges # <<>>
       /\ ranges[Len(ranges)][2] = total_duration
       /\ \A t \in 0 .. total_duration - 1 :
            Cardinality({ i \in DOMAIN ranges :
                            ranges[i][1] <= t /\ t < ranges[i][2] }) = 1

C3_Witness ==
  /\ LoopDone
  /\ Len(ranges) = 3
  /\ total_duration = 2700
  /\ ranges = << <<0, 1200>>, <<1200, 2400>>, <<2400, 2700>> >>

\* C4: the number of segments is ceil(total_duration / max), each of the full
\* length except the last, which ends at total_duration.
C4_SegmentCount ==
  LoopDone =>
    /\ num_chunks = Ceil(total_duration, chunk_duration)
    /\ \A i \in DOMAIN ranges :
         IF i < Len(ranges)
         THEN ranges[i][2] - ranges[i][1] = chunk_duration
         ELSE ranges[i][2] = total_duration /\ ranges[i][1] < ranges[i][2]

\* C5: when a probed duration is at most the maximum (0 for an unknown one
\* included), the only segment is the whole canonical stream and no segment
\* file is ever created.
C5_SingleSegment ==
  /\ (Probed /\ duration <= chunk_duration) =>
       /\ chunks = <<wav_path>>
       /\ created = {wav_path}
       /\ \A i \in DOMAIN recLog : recLog[i].seg = wav_path
  /\ (Probed /\ pc # "chunk_open" /\ total_duration <= chunk_duration) =>
       /\ chunks = <<wav_path>>
       /\ created = {wav_path}
       /\ \A i \in DOMAIN recLog : recLog[i].seg = wav_path

C5_Witness ==
  /\ pc = "returned"
  /\ StreamDuration > chunk_duration
  /\ duration = 0
  /\ recLog # <<>>

\* C6: when the recognition call fails for every segment, the call yields the
\* empty transcript and the language "unknown".
C6_AllFailedEmptyResult ==
  (Terminal /\ recLog # <<>> /\ Len(recLog) = Len(chunks) /\ Succeeded = {}) =>
     /\ result.kind = "returned"
     /\ result.text = <<>>
     /\ result.lang = "unknown"

\* C7: the recognizer is called on the segments one after the other in
\* ascending segment order, none twice and none passed over; when the call
\* returns every segment has been recognized exactly once and the transcript is
\* all their pieces in that order, each without leading and trailing blanks,
\* the empty ones dropped, joined by single blanks.
C7_OrderedMerge ==
  /\ Len(recLog) <= Len(chunks)
  /\ Len(recLog) = (IF pc = "raised" /\ result.error = "RecognitionError"
                    THEN idx ELSE idx - 1)
  /\ \A i \in DOMAIN recLog : recLog[i].seg = chunks[i]
  /\ \A i, j \in DOMAIN chunks : i < j => chunks[i] < chunks[j]
  /\ pc = "returned" =>
       /\ Len(recLog) = Len(chunks)
       /\ result.text = Merged(PiecesOf(Len(recLog)))

C7_Witness ==
  /\ pc = "returned"
  /\ Len(chunks) >= 2
  /\ PiecesOf(Len(recLog)) = << <<" ", "b", " ">>, <<" ">>, <<"c", " ", "d">> >>
  /\ result.text = <<"b", " ", "c", " ", "d">>

\* C8: an input without an audio stream makes the call raise the
\* no-audio-stream error with no recognition call made, the output WAV removed
\* and no segment file ever created.
C8_NoAudioStream ==
  input.kind = "noaudio" =>
    \/ pc = "convert" /\ created = {}
    \/ /\ pc = "raised"
       /\ result.error = "NoAudioStream"
       /\ files = {}
       /\ created = {wav_path}
       /\ recLog = <<>>

C8_Witness == input.kind = "noaudio" /\ pc = "raised" /\ wav_path \in created

\* C9: when _chunk_audio fails it returns the whole canonical stream as the
\* only segment: the pipeline goes on to the model and the recognition of that
\* one segment, and never raises because of the chunking.
C9_ChunkFailureFallsBack ==
  chunk_failed =>
    /\ pc \in {"load", "loop", "returned", "raised"}
    /\ chunks = <<wav_path>>
    /\ pc = "raised" => result.error \in {"ModelError", "RecognitionError"}
    /\ \A i \in DOMAIN recLog : recLog[i].seg = wav_path
    /\ pc = "returned" => Len(recLog) = 1 /\ recLog[1].ok

C9_Witness ==
  /\ chunk_failed
  /\ chunk_list # <<>>
  /\ pc = "returned"
  /\ recLog[1].seg = wav_path

\* C10: every frame with a timestamp in [0, total_duration) is written to
\* exactly the segment whose [start, end) holds its timestamp; the frame that
\* ends a segment's loop goes to the next segment.
C10_EveryFrameInItsSegment ==
  LoopDone =>
    \A f \in Frames \ input.noPts :
      FrameTime(f) < total_duration =>
        \A i \in DOMAIN ranges :
          (\E k \in DOMAIN content[i] : content[i][k] = f)
            <=> (ranges[i][1] <= FrameTime(f) /\ FrameTime(f) < ranges[i][2])

\* frame f was read from the container by the iteration that made segment i
ReadBy(i, f) ==
  /\ first_read[i] <= f
  /\ f < (IF i < Len(first_read) THEN first_read[i + 1] ELSE pos)

InSegment(i, f) == \E k \in DOMAIN content[i] : content[i][k] = f

\* C11: a frame without a presentation timestamp is written to the segment
\* that is being written when it is decoded, and to no other; none is dropped.
C11_FrameWithoutPtsKept ==
  LoopDone =>
    \A f \in input.noPts :
      \A i \in DOMAIN content : InSegment(i, f) <=> ReadBy(i, f)

\* C12: no segment holding zero frames is handed to the recognizer, be it the
\* whole-stream WAV or a segment file of _chunk_audio.
C12_NoEmptySegmentRecognized ==
  \A i \in DOMAIN recLog :
    IF recLog[i].seg = wav_path
    THEN input.nFrames > 0
    ELSE content[recLog[i].seg] # <<>>

\* C13: every segment still to be recognized is on disk; a file is removed
\* only once the recognition call on it has been made, and wav_path is removed
\* only as transcribe_audio ends, never by the clean-up of a segment.
C13_NoRemovalBeforeRecognition ==
  /\ [](pc = "loop" => \A i \in idx .. Len(chunks) : chunks[i] \in files)
  /\ [][\A f \in files \ files' :
          /\ (\E i \in DOMAIN chunks : chunks[i] = f) =>
               \E i \in DOMAIN recLog' : recLog'[i].seg = f
          /\ f = wav_path => pc' \in {"returned", "raised"}]_vars

C13_Witness ==
  /\ pc = "loop"
  /\ chunk_failed
  /\ chunks = <<wav_path>>
  /\ idx = 2
  /\ recLog[1].ok
  /\ wav_path \in files

====
